---- MODULE Spec2Model ----
(***************************************************************************)
(* Model of the radiusxyz/cipher repository: the RSA-group Wesolowski VDF  *)
(* (rsa_vdf/src/lib.rs), the class-group checkpoint cache                  *)
(* (vdf/src/proof_of_time.rs), the class-group proof-blob verifier         *)
(* (vdf/src/proof_wesolowski.rs) and the command-line driver               *)
(* (vdf-cli/src/main.rs).                                                  *)
(***************************************************************************)
EXTENDS Integers, Sequences, FiniteSets, TLC

(***************************************************************************)
(* Bounds of the model.                                                    *)
(***************************************************************************)
MaxPrime == 6
MaxX == 3
MaxT == 4
MaxForge == 11

VARIABLES
  rsa_pc,     \* "init" | "setup" | "solved" | "verified"
  unsolved,   \* the UnsolvedVDF the prover works on
  solved,     \* the SolvedVDF handed to the verifier
  via,        \* how `solved` was produced: "none" | "eval" | "trapdoor" | "forged"
  kept,       \* the UnsolvedVDF the verifier passes to verify
  res,        \* result of verify: "none" | "Ok" | "MisMatchedVDF" | "VDFVerifyError"
  it_pc,      \* iterate_squarings: "idle" | "loop" | "done"
  it_req,     \* powers_to_calculate as the caller's iterator yields them
  it_powers,  \* the collected and sorted Vec<u64>
  it_idx,     \* position of the for loop in it_powers
  it_x0,      \* the element passed in
  it_x,       \* the running element x
  it_prev,    \* previous_power
  it_map,     \* powers_calculated
  it_calls,   \* the arguments repeated_square was called with, in order
  cp_pc,      \* check_proof_of_time_wesolowski: "idle" | "entered" | "split" | "decoded" | "done"
  cp_challenge, cp_bits, cp_iterations, cp_blob,   \* its arguments
  cp_result_bytes, cp_proof_bytes,                \* the two halves of the blob
  cp_decoded, \* the elements decoded by ClassGroup::from_bytes, <<>> before that
  cp_ret,     \* "none" | "Ok" | "Err"
  cli_pc,     \* main: "start" | "parsed" | "keyed" | "exited"
  cli_type,   \* --type: "absent" | "pietrzak" | "wesolowski"
  cli_action, \* ACTION_TYPE
  cli_t,      \* the payload's t
  cli_calls,  \* number of calls of calculate_y
  cli_exit,   \* "running" | "ok" | "panic" | "validation_error"
  hp_seed,    \* hash_prime: the seed parts both callers pass
  hp_pc,      \* per caller: "idle" | "loop" | "done"
  hp_j,       \* per caller: the counter j
  hp_ret,     \* per caller: the prime returned, 0 before that
  ap_calls,   \* approximate_parameters: number of calls made (0..2)
  ap_t1, ap_r1,   \* argument and result of the first call
  ap_t2, ap_r2,   \* argument and result of the second call
  pl_pc,      \* proof loop of eval / eval_with_trapdoor: "idle" | "loop" | "done"
  pl_u,       \* the UnsolvedVDF being evaluated
  pl_trap,    \* TRUE for eval_with_trapdoor
  pl_g, pl_y, pl_l,        \* g, y and the prime l
  pl_i, pl_r, pl_pi, pl_b, \* loop counter, remainder, accumulator, last quotient
  pl_solved,  \* the SolvedVDF returned
  gy_pc,      \* calculate_y: "idle" | "squaring" | "done" | "verifying" | "panicked"
  gy_challenge, gy_high, gy_iterations, gy_bits,   \* its arguments
  gy_x,       \* the generator x
  gy_out,     \* the bytes returned
  gy_fed,     \* TRUE when the blob under verification is gy_out
  ci_pc,      \* PoseidonCipher: "idle" | "encrypted" | "decrypted"
  ci_perm,    \* which permutation the strategy applies
  ci_message, ci_secret, ci_nonce,   \* arguments of encrypt
  ci_cipher,  \* the PoseidonCipher returned by encrypt
  ci_result   \* result of decrypt: <<>> before, else <<"Ok", message>> or <<"Err">>

rsaVars == <<rsa_pc, unsolved, solved, via, kept, res>>
itVars == <<it_pc, it_req, it_powers, it_idx, it_x0, it_x, it_prev, it_map, it_calls>>
cpVars == <<cp_pc, cp_challenge, cp_bits, cp_iterations, cp_blob,
            cp_result_bytes, cp_proof_bytes, cp_decoded, cp_ret>>
cliVars == <<cli_pc, cli_type, cli_action, cli_t, cli_calls, cli_exit>>
hpVars == <<hp_seed, hp_pc, hp_j, hp_ret>>
apVars == <<ap_calls, ap_t1, ap_r1, ap_t2, ap_r2>>
plVars == <<pl_pc, pl_u, pl_trap, pl_g, pl_y, pl_l, pl_i, pl_r, pl_pi, pl_b, pl_solved>>
gyVars ==
  <<gy_pc, gy_challenge, gy_high, gy_iterations, gy_bits, gy_x, gy_out, gy_fed>>
ciVars == <<ci_pc, ci_perm, ci_message, ci_secret, ci_nonce, ci_cipher, ci_result>>
vars == <<rsaVars, itVars, cpVars, cliVars, hpVars, apVars, plVars, gyVars, ciVars>>

notRsa == <<itVars, cpVars, cliVars, hpVars, apVars, plVars, gyVars, ciVars>>
notIter == <<rsaVars, cpVars, cliVars, hpVars, apVars, plVars, gyVars, ciVars>>
notCheck == <<rsaVars, itVars, cliVars, hpVars, apVars, plVars, gyVars, ciVars>>
notCli == <<rsaVars, itVars, cpVars, hpVars, apVars, plVars, gyVars, ciVars>>

(***************************************************************************)
(* BigInt arithmetic (curv::arithmetic) on the non-negative values used.   *)
(***************************************************************************)
mod_mul(a, b, n) == (a * b) % n

RECURSIVE mod_pow(_, _, _)
mod_pow(a, e, n) == IF e = 0 THEN 1 % n ELSE mod_mul(mod_pow(a, e - 1, n), a, n)

IsPrime(k) == k > 1 /\ \A d \in 2..(k - 1) : k % d # 0

Primes == {k \in 2..MaxPrime : IsPrime(k)}

(***************************************************************************)
(* utilities::h_g and utilities::hash_to_prime are not part of the source  *)
(* tree; they are modelled as deterministic functions of their arguments:  *)
(* h_g maps the seed into the residues of n, hash_to_prime picks a prime   *)
(* that depends on the setup, g and y.                                     *)
(***************************************************************************)
h_g(n, x) == (7 * x + 3) % n

PrimeTable == <<2, 3, 5, 7, 11, 13>>

hash_to_prime(setup, g, y) ==
  PrimeTable[((setup.t + 3 * setup.n + 5 * g + 7 * y) % Len(PrimeTable)) + 1]

(***************************************************************************)
(* SetupForVDF / UnsolvedVDF / SolvedVDF and the setup constructors.       *)
(***************************************************************************)
public_setup2(x, t, p, q) ==
  [x |-> x,
   setup |-> [t |-> t, n |-> p * q, p |-> p, q |-> q,
              pi_n |-> (p - 1) * (q - 1)]]

public_setup3(x, t, n) ==
  [x |-> x, setup |-> [t |-> t, n |-> n, p |-> 0, q |-> 0, pi_n |-> 0]]

(***************************************************************************)
(* UnsolvedVDF::cal_y: loop_count is doubled t times, then y, which starts *)
(* as g, is multiplied by g loop_count times.                              *)
(***************************************************************************)
RECURSIVE DoubleLoop(_, _)
DoubleLoop(loop_count, t) ==
  IF t <= 0 THEN loop_count ELSE DoubleLoop(loop_count * 2, t - 1)

RECURSIVE MulLoop(_, _, _, _)
MulLoop(y, g, n, loop_count) ==
  IF loop_count <= 0 THEN y ELSE MulLoop(mod_mul(y, g, n), g, n, loop_count - 1)

cal_y(u) ==
  LET n == u.setup.n
      g == h_g(n, u.x)
  IN  MulLoop(g, g, n, DoubleLoop(1, u.setup.t))

(***************************************************************************)
(* UnsolvedVDF::cal_y_with_trapdoor: as cal_y, with loop_count doubled     *)
(* modulo pi_n.                                                            *)
(***************************************************************************)
RECURSIVE DoubleLoopMod(_, _, _)
DoubleLoopMod(loop_count, t, m) ==
  IF t <= 0 THEN loop_count ELSE DoubleLoopMod(mod_mul(loop_count, 2, m), t - 1, m)

cal_y_with_trapdoor_mod_n(u) ==
  LET n == u.setup.n
      g == h_g(n, u.x)
  IN  MulLoop(g, g, n, DoubleLoopMod(1, u.setup.t, n))

cal_y_with_trapdoor(u) ==
  LET n == u.setup.n
      g == h_g(n, u.x)
  IN  MulLoop(g, g, n, DoubleLoopMod(1, u.setup.t, u.setup.pi_n))

(***************************************************************************)
(* The long-division proof loop of eval and eval_with_trapdoor: the pair   *)
(* (r, pi) after the iterations i .. t-1.                                  *)
(***************************************************************************)
long_division_step_no_square(r, pi, g, l, n) ==
  LET r2  == r * 2
      b   == r2 \div l
      g_b == mod_pow(g, b, n)
  IN  [b |-> b, r |-> r2 % l, pi |-> mod_mul(pi, g_b, n)]

\* one iteration of the loop body
long_division_step(r, pi, g, l, n) ==
  LET r2  == r * 2
      b   == r2 \div l
      g_b == mod_pow(g, b, n)
  IN  [b |-> b, r |-> r2 % l, pi |-> mod_mul(mod_mul(pi, pi, n), g_b, n)]

RECURSIVE proof_loop(_, _, _, _, _, _, _)
proof_loop(i, t, r, pi, g, l, n) ==
  IF i >= t THEN [r |-> r, pi |-> pi]
  ELSE LET s == long_division_step(r, pi, g, l, n)
       IN  proof_loop(i + 1, t, s.r, s.pi, g, l, n)

eval(u) ==
  LET n == u.setup.n
      g == h_g(n, u.x)
      y == cal_y(u)
      l == hash_to_prime(u.setup, g, y)
  IN  [vdf_instance |-> u, y |-> y,
       pi |-> proof_loop(0, u.setup.t, 1, 1, g, l, n).pi]

eval_with_trapdoor(u) ==
  LET n == u.setup.n
      g == h_g(n, u.x)
      y == cal_y_with_trapdoor(u)
      l == hash_to_prime(u.setup, g, y)
  IN  [vdf_instance |-> u, y |-> y,
       pi |-> proof_loop(0, u.setup.t, 1, 1, g, l, n).pi]

(***************************************************************************)
(* SolvedVDF::verify.  The three returns, in the order of the code.        *)
(***************************************************************************)
RangeError == "VDFVerifyError"
AlgebraError == "VDFVerifyError"

OutOfRange(s) ==
  s.y >= s.vdf_instance.setup.n \/ s.pi >= s.vdf_instance.setup.n

AlgebraHolds(s) ==
  LET n == s.vdf_instance.setup.n
      g == h_g(n, s.vdf_instance.x)
      l == hash_to_prime(s.vdf_instance.setup, g, s.y)
      r == mod_pow(2, s.vdf_instance.setup.t, l)
      pi_l == mod_pow(s.pi, l, n)
      g_r == mod_pow(g, r, n)
  IN  mod_mul(pi_l, g_r, n) = s.y

verify_x_only(s, u) ==
  IF s.vdf_instance.x # u.x THEN "MisMatchedVDF"
  ELSE IF OutOfRange(s) THEN RangeError
  ELSE IF AlgebraHolds(s) THEN "Ok" ELSE AlgebraError

verify_no_range(s, u) ==
  IF s.vdf_instance # u THEN "MisMatchedVDF"
  ELSE IF AlgebraHolds(s) THEN "Ok" ELSE AlgebraError

verify_public_fields(s, u) ==
  IF \/ s.vdf_instance.x # u.x
     \/ s.vdf_instance.setup.t # u.setup.t
     \/ s.vdf_instance.setup.n # u.setup.n
  THEN "MisMatchedVDF"
  ELSE IF OutOfRange(s) THEN RangeError
  ELSE IF AlgebraHolds(s) THEN "Ok" ELSE AlgebraError

verify(s, u) ==
  IF s.vdf_instance # u THEN "MisMatchedVDF"
  ELSE IF OutOfRange(s) THEN RangeError
  ELSE IF AlgebraHolds(s) THEN "Ok" ELSE AlgebraError

(***************************************************************************)
(* The RSA-group state machine: a setup party builds an instance, a prover *)
(* evaluates it (or an adversary supplies y and pi), a verifier checks the *)
(* solved instance against the instance it kept.                           *)
(***************************************************************************)
Xs == 0..MaxX
Ts == 0..MaxT
PrimePairs == {pq \in Primes \X Primes : pq[1] # pq[2]}
Moduli == {pq[1] * pq[2] : pq \in PrimePairs}

ZeroInstance == public_setup3(0, 0, 0)

\* The instances a verifier may hold instead of u: u itself, its public view,
\* and u with one field changed.
KeptCandidates(u) ==
  {u, public_setup3(u.x, u.setup.t, u.setup.n),
   [u EXCEPT !.x = u.x + 1],
   [u EXCEPT !.setup.t = u.setup.t + 1],
   [u EXCEPT !.setup.n = u.setup.n + 1],
   [u EXCEPT !.setup.p = u.setup.p + 1],
   [u EXCEPT !.setup.q = u.setup.q + 1],
   [u EXCEPT !.setup.pi_n = u.setup.pi_n + 1]}

InitRsa ==
  /\ rsa_pc = "init"
  /\ unsolved = ZeroInstance
  /\ solved = [vdf_instance |-> ZeroInstance, y |-> 0, pi |-> 0]
  /\ via = "none"
  /\ kept = ZeroInstance
  /\ res = "none"

Setup2 ==
  /\ rsa_pc = "init"
  /\ \E x \in Xs, t \in Ts, pq \in PrimePairs :
       unsolved' = public_setup2(x, t, pq[1], pq[2])
  /\ rsa_pc' = "setup"
  /\ UNCHANGED <<solved, via, kept, res>>
  /\ UNCHANGED notRsa

Setup3 ==
  /\ rsa_pc = "init"
  /\ \E x \in Xs, t \in Ts, n \in Moduli :
       unsolved' = public_setup3(x, t, n)
  /\ rsa_pc' = "setup"
  /\ UNCHANGED <<solved, via, kept, res>>
  /\ UNCHANGED notRsa

Eval ==
  /\ rsa_pc = "setup"
  /\ solved' = eval(unsolved)
  /\ via' = "eval"
  /\ rsa_pc' = "solved"
  /\ UNCHANGED <<unsolved, kept, res>>
  /\ UNCHANGED notRsa

EvalWithTrapdoor ==
  /\ rsa_pc = "setup"
  /\ unsolved.setup.pi_n # 0
  /\ solved' = eval_with_trapdoor(unsolved)
  /\ via' = "trapdoor"
  /\ rsa_pc' = "solved"
  /\ UNCHANGED <<unsolved, kept, res>>
  /\ UNCHANGED notRsa

\* y and pi are public fields and SolvedVDF is Deserialize: a verifier can be
\* handed any y and pi for the instance.
Forge ==
  /\ rsa_pc = "setup"
  /\ \E y \in 0..MaxForge, pi \in 0..MaxForge :
       solved' = [vdf_instance |-> unsolved, y |-> y, pi |-> pi]
  /\ via' = "forged"
  /\ rsa_pc' = "solved"
  /\ UNCHANGED <<unsolved, kept, res>>
  /\ UNCHANGED notRsa

Verify ==
  /\ rsa_pc = "solved"
  /\ \E u \in KeptCandidates(unsolved) :
       /\ kept' = u
       /\ res' = verify(solved, u)
  /\ rsa_pc' = "verified"
  /\ UNCHANGED <<unsolved, solved, via>>
  /\ UNCHANGED notRsa

NextRsa == Setup2 \/ Setup3 \/ Eval \/ EvalWithTrapdoor \/ Forge \/ Verify

(***************************************************************************)
(* eval and eval_with_trapdoor, one iteration of the proof loop at a time. *)
(***************************************************************************)
Instances ==
  {public_setup2(x, t, pq[1], pq[2]) : x \in Xs, t \in Ts, pq \in PrimePairs}
  \cup {public_setup3(x, t, n) : x \in Xs, t \in Ts, n \in Moduli}

InitProof ==
  /\ pl_pc = "idle"
  /\ pl_u = ZeroInstance
  /\ pl_trap = FALSE
  /\ pl_g = 0
  /\ pl_y = 0
  /\ pl_l = 0
  /\ pl_i = 0
  /\ pl_r = 0
  /\ pl_pi = 0
  /\ pl_b = 0
  /\ pl_solved = [vdf_instance |-> ZeroInstance, y |-> 0, pi |-> 0]

notProof == <<rsaVars, itVars, cpVars, cliVars, hpVars, apVars, gyVars, ciVars>>

\* lines 147-176 (eval) and 196-219 (eval_with_trapdoor): g, y, l and the
\* initial values of the loop
ProofStart ==
  /\ pl_pc = "idle"
  /\ \E u \in Instances, trap \in BOOLEAN :
       /\ trap => u.setup.pi_n # 0
       /\ LET n == u.setup.n
              g == h_g(n, u.x)
              y == IF trap THEN cal_y_with_trapdoor(u) ELSE cal_y(u)
          IN  /\ pl_u' = u
              /\ pl_trap' = trap
              /\ pl_g' = g
              /\ pl_y' = y
              /\ pl_l' = hash_to_prime(u.setup, g, y)
  /\ pl_i' = 0
  /\ pl_r' = 1
  /\ pl_pi' = 1
  /\ pl_pc' = "loop"
  /\ UNCHANGED <<pl_b, pl_solved>>
  /\ UNCHANGED notProof

\* lines 178-186 and 221-229: the loop body
ProofStep ==
  /\ pl_pc = "loop"
  /\ pl_i < pl_u.setup.t
  /\ LET s == long_division_step(pl_r, pl_pi, pl_g, pl_l, pl_u.setup.n)
     IN  /\ pl_b' = s.b
         /\ pl_r' = s.r
         /\ pl_pi' = s.pi
  /\ pl_i' = pl_i + 1
  /\ UNCHANGED <<pl_pc, pl_u, pl_trap, pl_g, pl_y, pl_l, pl_solved>>
  /\ UNCHANGED notProof

\* lines 188-193 and 231-236: the solved instance is built and returned
ProofReturn ==
  /\ pl_pc = "loop"
  /\ pl_i >= pl_u.setup.t
  /\ pl_solved' = [vdf_instance |-> pl_u, y |-> pl_y, pi |-> pl_pi]
  /\ pl_pc' = "done"
  /\ UNCHANGED <<pl_u, pl_trap, pl_g, pl_y, pl_l, pl_i, pl_r, pl_pi, pl_b>>
  /\ UNCHANGED notProof

NextProof == ProofStart \/ ProofStep \/ ProofReturn

(***************************************************************************)
(* Class-group elements.  The ClassGroup implementation is not part of the *)
(* source tree; an element is modelled as a residue a of a modulus d that  *)
(* create_discriminant derives from the challenge, with multiplication     *)
(* modulo d and a fixed-width big-endian serialization.                    *)
(***************************************************************************)
create_discriminant(challenge, int_size_bits) ==
  IF challenge % 2 = 0 THEN 23 ELSE 47

from_ab_discriminant(a, b, d) == [a |-> a % d, d |-> d]

cg_mul(e, f) == [a |-> (e.a * f.a) % e.d, d |-> e.d]

cg_square(e) == cg_mul(e, e)

RECURSIVE repeated_square(_, _)
repeated_square(e, k) ==
  IF k <= 0 THEN e ELSE repeated_square(cg_square(e), k - 1)

RECURSIVE cg_pow(_, _)
cg_pow(e, k) ==
  IF k <= 0 THEN [a |-> 1 % e.d, d |-> e.d] ELSE cg_mul(cg_pow(e, k - 1), e)

RECURSIVE BytesToInt(_)
BytesToInt(bytes) ==
  IF bytes = <<>> THEN 0
  ELSE 256 * BytesToInt(SubSeq(bytes, 1, Len(bytes) - 1)) + bytes[Len(bytes)]

RECURSIVE IntToBytes(_, _)
IntToBytes(v, width) ==
  IF width = 0 THEN <<>>
  ELSE Append(IntToBytes(v \div 256, width - 1), v % 256)

from_bytes(bytes, d) == [a |-> BytesToInt(bytes) % d, d |-> d]

serialize(e, width) == IntToBytes(e.a, width)

(***************************************************************************)
(* iterate_squarings (proof_of_time.rs).                                   *)
(***************************************************************************)
MaxCount == 4
MaxReq == 3

RECURSIVE InsertSorted(_, _)
InsertSorted(s, v) ==
  IF s = <<>> THEN <<v>>
  ELSE IF v <= Head(s) THEN <<v>> \o s
  ELSE <<Head(s)>> \o InsertSorted(Tail(s), v)

RECURSIVE SortAscending(_)
SortAscending(s) ==
  IF s = <<>> THEN <<>>
  ELSE InsertSorted(SortAscending(Tail(s)), Head(s))

sort_unstable_missing(s) == s

sort_unstable(s) == SortAscending(s)

Requests == UNION {[1..k -> 0..MaxCount] : k \in 0..MaxReq}

Bases == {from_ab_discriminant(2, 1, create_discriminant(c, 0)) : c \in 0..1}

InitIter ==
  /\ it_pc = "idle"
  /\ it_req = <<>>
  /\ it_powers = <<>>
  /\ it_idx = 1
  /\ it_x0 = from_ab_discriminant(2, 1, create_discriminant(0, 0))
  /\ it_x = from_ab_discriminant(2, 1, create_discriminant(0, 0))
  /\ it_prev = 0
  /\ it_map = <<>>
  /\ it_calls = <<>>

\* lines 11-17: collect the iterator, sort, previous_power = 0
IterateBegin(x, req) ==
  /\ it_x0' = x
  /\ it_x' = x
  /\ it_req' = req
  /\ it_powers' = sort_unstable(req)
  /\ it_idx' = 1
  /\ it_prev' = 0
  /\ it_map' = <<>>
  /\ it_calls' = <<>>
  /\ it_pc' = "loop"

IterateStart ==
  /\ it_pc = "idle"
  /\ \E x \in Bases, req \in Requests : IterateBegin(x, req)
  /\ UNCHANGED notIter

\* lines 18-22: one iteration of the for loop
IterateStep ==
  /\ it_pc = "loop"
  /\ it_idx <= Len(it_powers)
  /\ LET current_power == it_powers[it_idx]
         x == repeated_square(it_x, current_power - it_prev)
     IN  /\ it_calls' = Append(it_calls, current_power - it_prev)
         /\ it_x' = x
         /\ it_map' = [c \in DOMAIN it_map \cup {current_power} |->
                         IF c = current_power THEN x ELSE it_map[c]]
         /\ it_prev' = current_power
  /\ it_idx' = it_idx + 1
  /\ UNCHANGED <<it_pc, it_req, it_powers, it_x0>>
  /\ UNCHANGED notIter

\* line 24: the map is returned
IterateReturn ==
  /\ it_pc = "loop"
  /\ it_idx > Len(it_powers)
  /\ it_pc' = "done"
  /\ UNCHANGED <<it_req, it_powers, it_idx, it_x0, it_x, it_prev, it_map, it_calls>>
  /\ UNCHANGED notIter

NextIter == IterateStart \/ IterateStep \/ IterateReturn

(***************************************************************************)
(* hash_prime and verify_proof (proof_wesolowski.rs).  SHA-256 is replaced *)
(* by a small mixing function of the same inputs in the same order: the    *)
(* tag, the counter, then the seed parts.                                  *)
(***************************************************************************)
RECURSIVE Mix(_, _)
Mix(h, bytes) ==
  IF bytes = <<>> THEN h ELSE Mix((3 * h + Head(bytes) + 1) % 32, Tail(bytes))

RECURSIVE Concat(_)
Concat(parts) == IF parts = <<>> THEN <<>> ELSE Head(parts) \o Concat(Tail(parts))

\* b"prime"
PrimeTag == <<112, 114, 105, 109, 101>>

\* (q >> shift) as u8; the counters of the model stay below 2^31
u64_byte(q, shift) == IF shift >= 31 THEN 0 ELSE (q \div (2 ^ shift)) % 256

u64_to_bytes(q) ==
  <<u64_byte(q, 56), u64_byte(q, 48), u64_byte(q, 40), u64_byte(q, 32),
    u64_byte(q, 24), u64_byte(q, 16), u64_byte(q, 8), u64_byte(q, 0)>>

Digest16(j, seed) == Mix(0, PrimeTag \o u64_to_bytes(j) \o Concat(seed))

SkipCounter(j) == j + 2

NextCounter(j) == j + 1

probab_prime(k) == IsPrime(k)

RECURSIVE hash_prime_from(_, _)
hash_prime_from(j, seed) ==
  IF probab_prime(Digest16(j, seed)) THEN Digest16(j, seed)
  ELSE hash_prime_from(NextCounter(j), seed)

hash_prime(seed) == hash_prime_from(0, seed)

(***************************************************************************)
(* hash_prime, one loop iteration at a time, as called by the prover and   *)
(* by the verifier with the same seed.                                     *)
(***************************************************************************)
MaxPartLen == 2

Callers == {"prover", "verifier"}

SeedParts == UNION {[1..k -> {0, 1}] : k \in 0..MaxPartLen}

Seeds == UNION {[1..k -> SeedParts] : k \in 1..2}

InitHash ==
  /\ hp_seed = <<>>
  /\ hp_pc = [c \in Callers |-> "idle"]
  /\ hp_j = [c \in Callers |-> 0]
  /\ hp_ret = [c \in Callers |-> 0]

notHash == <<rsaVars, itVars, cpVars, cliVars, apVars, plVars, gyVars, ciVars>>

\* the serialized elements both parties hash
HashSeed ==
  /\ hp_seed = <<>>
  /\ hp_seed' \in Seeds
  /\ UNCHANGED <<hp_pc, hp_j, hp_ret>>
  /\ UNCHANGED notHash

\* line 91: let mut j = 0u64
HashEnter(c) ==
  /\ hp_seed # <<>>
  /\ hp_pc[c] = "idle"
  /\ hp_j' = [hp_j EXCEPT ![c] = 0]
  /\ hp_pc' = [hp_pc EXCEPT ![c] = "loop"]
  /\ UNCHANGED <<hp_seed, hp_ret>>
  /\ UNCHANGED notHash

\* lines 92-103: a candidate that fails the primality test
HashStep(c) ==
  /\ hp_pc[c] = "loop"
  /\ ~probab_prime(Digest16(hp_j[c], hp_seed))
  /\ hp_j' = [hp_j EXCEPT ![c] = NextCounter(hp_j[c])]
  /\ UNCHANGED <<hp_seed, hp_pc, hp_ret>>
  /\ UNCHANGED notHash

\* lines 92-101: a candidate that passes is returned
HashReturn(c) ==
  /\ hp_pc[c] = "loop"
  /\ probab_prime(Digest16(hp_j[c], hp_seed))
  /\ hp_ret' = [hp_ret EXCEPT ![c] = Digest16(hp_j[c], hp_seed)]
  /\ hp_pc' = [hp_pc EXCEPT ![c] = "done"]
  /\ UNCHANGED <<hp_seed, hp_j>>
  /\ UNCHANGED notHash

HashEnterAny == \E c \in Callers : HashEnter(c)

HashStepAny == \E c \in Callers : HashStep(c)

HashReturnAny == \E c \in Callers : HashReturn(c)

NextHash == HashSeed \/ HashEnterAny \/ HashStepAny \/ HashReturnAny

verify_proof(x, y, proof, t, int_size_bits) ==
  LET element_len == 2 * ((int_size_bits + 16) \div 16)
      x_buf == serialize(x, element_len)
      y_buf == serialize(y, element_len)
      b == hash_prime(<<x_buf, y_buf>>)
      r == mod_pow(2, t, b)
  IN  IF cg_mul(cg_pow(proof, b), cg_pow(x, r)) = y THEN "Ok" ELSE "Err"

(***************************************************************************)
(* approximate_parameters (proof_wesolowski.rs).  log2 is increasing, so   *)
(* log_t - log_memory > 0 is t > 10_000_000, and 2^(log_memory - 20) is    *)
(* 10_000_000 / 2^20.  The f64 expressions for k and w are tabulated: they *)
(* hold their IEEE double values for the iteration counts the model draws  *)
(* (0 .. 24 and the counts within 200 of the memory budget).               *)
(***************************************************************************)
MemoryBudget == 10000000

MaxSmallT == 8
MaxWindow == 8

CeilDiv(a, b) == (a + b - 1) \div b

ApproxLFlipped(t) ==
  IF t > MemoryBudget THEN 1 ELSE CeilDiv(MemoryBudget, 2 ^ 20)

ApproxL(t) ==
  IF t > MemoryBudget THEN CeilDiv(MemoryBudget, 2 ^ 20) ELSE 1

KSmall == <<1, 1, 1, 4, 2, 1, 1, 1, 1, 1, 1, 1, 1, 1, 1, 1, 1, 1, 1,
            2, 2, 2, 2, 2, 2>>

ApproxK(t) ==
  IF t < Len(KSmall) THEN KSmall[t + 1]
  ELSE IF t > MemoryBudget THEN 10 ELSE 13

ApproxW(t) ==
  IF t < Len(KSmall) THEN 0
  ELSE IF t > MemoryBudget THEN 7 ELSE 10

approximate_parameters(t) == <<ApproxL(t), ApproxK(t), ApproxW(t)>>

IterationCounts ==
  (0..MaxSmallT) \cup ((MemoryBudget - MaxWindow)..(MemoryBudget + MaxWindow))

InitApprox ==
  /\ ap_calls = 0
  /\ ap_t1 = 0
  /\ ap_r1 = <<0, 0, 0>>
  /\ ap_t2 = 0
  /\ ap_r2 = <<0, 0, 0>>

notApprox == <<rsaVars, itVars, cpVars, cliVars, hpVars, plVars, gyVars, ciVars>>

\* lines 57-67: one call; the model records two calls
ApproxCall ==
  /\ ap_calls < 2
  /\ \E t \in IterationCounts :
       IF ap_calls = 0
       THEN /\ ap_t1' = t
            /\ ap_r1' = approximate_parameters(t)
            /\ UNCHANGED <<ap_t2, ap_r2>>
       ELSE /\ ap_t2' = t
            /\ ap_r2' = approximate_parameters(t)
            /\ UNCHANGED <<ap_t1, ap_r1>>
  /\ ap_calls' = ap_calls + 1
  /\ UNCHANGED notApprox

NextApprox == ApproxCall

(***************************************************************************)
(* check_proof_of_time_wesolowski (proof_wesolowski.rs).  The guard on     *)
(* usize::MAX - 16 < int_size_bits is never true of a u16 and is left out. *)
(***************************************************************************)
MaxBlobLen == 9
MaxBits == 16
MaxIterations == 1

IntSize(int_size_bits) == (int_size_bits + 16) \div 16

LengthAtLeast(int_size, proof_blob) == int_size * 4 <= Len(proof_blob)

LengthMatches(int_size, proof_blob) == int_size * 4 = Len(proof_blob)

split_at(bytes, mid) ==
  <<SubSeq(bytes, 1, mid), SubSeq(bytes, mid + 1, Len(bytes))>>

Blobs == UNION {[1..k -> {0, 1}] : k \in 0..MaxBlobLen}

BitsChoices == {b \in 0..MaxBits : b % 8 = 0 \/ b = MaxBits}

InitCheck ==
  /\ cp_pc = "idle"
  /\ cp_challenge = 0
  /\ cp_bits = 0
  /\ cp_iterations = 0
  /\ cp_blob = <<>>
  /\ cp_result_bytes = <<>>
  /\ cp_proof_bytes = <<>>
  /\ cp_decoded = <<>>
  /\ cp_ret = "none"

\* lines 161-166: the call, the discriminant and x
CheckEnter ==
  /\ cp_pc = "idle"
  /\ \E c \in 0..1, blob \in Blobs, t \in 0..MaxIterations, bits \in BitsChoices :
       /\ cp_challenge' = c
       /\ cp_blob' = blob
       /\ cp_iterations' = t
       /\ cp_bits' = bits
  /\ cp_pc' = "entered"
  /\ UNCHANGED <<cp_result_bytes, cp_proof_bytes, cp_decoded, cp_ret>>
  /\ UNCHANGED notCheck

\* lines 170-175: the length check and the split
CheckLength ==
  /\ cp_pc = "entered"
  /\ LET int_size == IntSize(cp_bits)
     IN  IF ~LengthMatches(int_size, cp_blob)
         THEN /\ cp_ret' = "Err"
              /\ cp_pc' = "done"
              /\ UNCHANGED <<cp_result_bytes, cp_proof_bytes>>
         ELSE /\ cp_result_bytes' = split_at(cp_blob, 2 * int_size)[1]
              /\ cp_proof_bytes' = split_at(cp_blob, 2 * int_size)[2]
              /\ cp_pc' = "split"
              /\ UNCHANGED cp_ret
  /\ UNCHANGED <<cp_challenge, cp_bits, cp_iterations, cp_blob, cp_decoded>>
  /\ UNCHANGED notCheck

\* lines 176-177: proof and y are decoded
CheckDecode ==
  /\ cp_pc = "split"
  /\ LET discriminant == create_discriminant(cp_challenge, cp_bits)
     IN  cp_decoded' = <<from_bytes(cp_proof_bytes, discriminant),
                         from_bytes(cp_result_bytes, discriminant)>>
  /\ cp_pc' = "decoded"
  /\ UNCHANGED <<cp_challenge, cp_bits, cp_iterations, cp_blob,
                 cp_result_bytes, cp_proof_bytes, cp_ret>>
  /\ UNCHANGED notCheck

\* line 181: the algebraic check
CheckVerify ==
  /\ cp_pc = "decoded"
  /\ LET discriminant == create_discriminant(cp_challenge, cp_bits)
         x == from_ab_discriminant(2, 1, discriminant)
     IN  cp_ret' = verify_proof(x, cp_decoded[2], cp_decoded[1],
                                cp_iterations, cp_bits)
  /\ cp_pc' = "done"
  /\ UNCHANGED <<cp_challenge, cp_bits, cp_iterations, cp_blob,
                 cp_result_bytes, cp_proof_bytes, cp_decoded>>
  /\ UNCHANGED notCheck

NextCheck == CheckEnter \/ CheckLength \/ CheckDecode \/ CheckVerify

(***************************************************************************)
(* WesolowskiVDF::calculate_y, generate_y and generate_output, and         *)
(* WesolowskiVDF::verify called with the bytes calculate_y returned.  The  *)
(* iteration count is kept in two limbs, gy_high * 2^53 + gy_iterations    *)
(* with gy_iterations < 2^53, so that the assertion of generate_y is a     *)
(* test of the high limb.  The guard difficulty > usize::MAX is never true *)
(* where usize has 64 bits.                                                *)
(***************************************************************************)
MaxGenIter == 5
MaxGenHigh == 1

\* assert!((iterations as u128) < (1u128 << 53))
BelowAssertLimit(high, low) == high = 0

generate_output_with_proof(x, iterations, powers, int_size_bits) ==
  LET element_len == 2 * ((int_size_bits + 16) \div 16)
  IN  serialize(powers[iterations], element_len) \o serialize(x, element_len)

generate_output(x, iterations, powers, int_size_bits) ==
  LET element_len == 2 * ((int_size_bits + 16) \div 16)
      x_buf == serialize(x, element_len)
      y_buf == serialize(powers[iterations], element_len)
  IN  y_buf

\* (0..=iterations / q + 1).map(|i| i * q).chain(Some(iterations))
CheckpointRequest(iterations, q) ==
  [i \in 1..(iterations \div q + 2) |-> (i - 1) * q] \o <<iterations>>

InitGen ==
  /\ gy_pc = "idle"
  /\ gy_challenge = 0
  /\ gy_high = 0
  /\ gy_iterations = 0
  /\ gy_bits = 0
  /\ gy_x = from_ab_discriminant(2, 1, create_discriminant(0, 0))
  /\ gy_out = <<>>
  /\ gy_fed = FALSE

notGen == <<rsaVars, cliVars, hpVars, apVars, plVars, ciVars>>

\* calculate_y (lines 41-47) and generate_y up to the call of
\* iterate_squarings (lines 143-156), whose lines 11-17 run here
GenEnter ==
  /\ gy_pc = "idle"
  /\ \E c \in 0..1, iterations \in 0..MaxGenIter, bits \in BitsChoices :
       LET x == from_ab_discriminant(2, 1, create_discriminant(c, bits))
           lkw == approximate_parameters(iterations)
           q == lkw[1] * lkw[2]
       IN  /\ gy_challenge' = c
           /\ gy_high' = 0
           /\ gy_iterations' = iterations
           /\ gy_bits' = bits
           /\ gy_x' = x
           /\ BelowAssertLimit(0, iterations)
           /\ IterateBegin(x, CheckpointRequest(iterations, q))
  /\ gy_pc' = "squaring"
  /\ UNCHANGED <<gy_out, gy_fed>>
  /\ UNCHANGED <<cpVars, notGen>>

\* calculate_y with an iteration count of 2^53 or more: the assertion of
\* line 151 fails and generate_y panics
GenPanic ==
  /\ gy_pc = "idle"
  /\ \E c \in 0..1, high \in 1..MaxGenHigh, iterations \in 0..MaxGenIter,
        bits \in BitsChoices :
       /\ gy_challenge' = c
       /\ gy_high' = high
       /\ gy_iterations' = iterations
       /\ gy_bits' = bits
       /\ gy_x' = from_ab_discriminant(2, 1, create_discriminant(c, bits))
       /\ ~BelowAssertLimit(high, iterations)
  /\ gy_pc' = "panicked"
  /\ UNCHANGED <<gy_out, gy_fed>>
  /\ UNCHANGED <<itVars, cpVars, notGen>>

\* line 158: generate_output on the map iterate_squarings returned
GenOutput ==
  /\ gy_pc = "squaring"
  /\ it_pc = "done"
  /\ gy_out' = generate_output(gy_x, gy_iterations, it_map, gy_bits)
  /\ gy_pc' = "done"
  /\ UNCHANGED <<gy_challenge, gy_high, gy_iterations, gy_bits, gy_x, gy_fed>>
  /\ UNCHANGED <<itVars, cpVars, notGen>>

\* WesolowskiVDF::verify (lines 49-51) with the output of calculate_y and
\* the same challenge and difficulty: check_proof_of_time_wesolowski is
\* entered (lines 161-166)
VerifyGenerated ==
  /\ gy_pc = "done"
  /\ cp_pc = "idle"
  /\ cp_challenge' = gy_challenge
  /\ cp_blob' = gy_out
  /\ cp_iterations' = gy_iterations
  /\ cp_bits' = gy_bits
  /\ cp_pc' = "entered"
  /\ gy_fed' = TRUE
  /\ gy_pc' = "verifying"
  /\ UNCHANGED <<cp_result_bytes, cp_proof_bytes, cp_decoded, cp_ret>>
  /\ UNCHANGED <<gy_challenge, gy_high, gy_iterations, gy_bits, gy_x, gy_out>>
  /\ UNCHANGED <<itVars, notGen>>

\* the squarings are the steps of iterate_squarings, the verification the
\* length check of check_proof_of_time_wesolowski
NextGen ==
  \/ GenEnter \/ GenPanic \/ IterateStep \/ IterateReturn \/ GenOutput
  \/ VerifyGenerated \/ CheckLength

(***************************************************************************)
(* The command-line driver (vdf-cli/src/main.rs).  check_iterations is     *)
(* defined by the source and called nowhere in it.  PietrzakVDF is not     *)
(* part of the source tree: its calculate_y is modelled as rejecting the   *)
(* iteration counts that proof type does not allow.                        *)
(***************************************************************************)
MaxCliT == 68

check_iterations(is_pietrzak, iterations) ==
  IF is_pietrzak /\ (iterations % 2 # 0 \/ iterations < 66)
  THEN "validation_error" ELSE "ok"

wesolowski_calculate_y(difficulty) == "Ok"

pietrzak_calculate_y(difficulty) ==
  IF difficulty % 2 # 0 \/ difficulty < 66 THEN "Err" ELSE "Ok"

calculate_y(is_pietrzak, difficulty) ==
  IF is_pietrzak THEN pietrzak_calculate_y(difficulty)
  ELSE wesolowski_calculate_y(difficulty)

InitCli ==
  /\ cli_pc = "start"
  /\ cli_type = "absent"
  /\ cli_action = "none"
  /\ cli_t = 0
  /\ cli_calls = 0
  /\ cli_exit = "running"

\* lines 81-112: the arguments and the JSON payload are read, the VDF is built
CliParse ==
  /\ cli_pc = "start"
  /\ cli_type' \in {"absent", "pietrzak", "wesolowski"}
  /\ cli_action' \in {"encrypt", "decrypt", "other"}
  /\ cli_t' \in 0..MaxCliT
  /\ cli_pc' = "parsed"
  /\ UNCHANGED <<cli_calls, cli_exit>>
  /\ UNCHANGED notCli

\* lines 114-125: the encrypt verb up to the secret key
CliEncryptKey ==
  /\ cli_pc = "parsed"
  /\ cli_action = "encrypt"
  /\ cli_calls' = cli_calls + 1
  /\ IF calculate_y(cli_type = "pietrzak", cli_t) = "Ok"
     THEN cli_pc' = "keyed" /\ UNCHANGED cli_exit
     ELSE cli_pc' = "exited" /\ cli_exit' = "panic"
  /\ UNCHANGED <<cli_type, cli_action, cli_t>>
  /\ UNCHANGED notCli

\* lines 152-153: the decrypt verb up to the secret key
CliDecryptKey ==
  /\ cli_pc = "parsed"
  /\ cli_action = "decrypt"
  /\ cli_calls' = cli_calls + 1
  /\ IF calculate_y(cli_type = "pietrzak", cli_t) = "Ok"
     THEN cli_pc' = "keyed" /\ UNCHANGED cli_exit
     ELSE cli_pc' = "exited" /\ cli_exit' = "panic"
  /\ UNCHANGED <<cli_type, cli_action, cli_t>>
  /\ UNCHANGED notCli

\* lines 127-150 and 154-171: the cipher is run and the result printed
CliOutput ==
  /\ cli_pc = "keyed"
  /\ cli_pc' = "exited"
  /\ cli_exit' = "ok"
  /\ UNCHANGED <<cli_type, cli_action, cli_t, cli_calls>>
  /\ UNCHANGED notCli

\* lines 114, 151, 172-173: any other verb falls through both branches
CliNoVerb ==
  /\ cli_pc = "parsed"
  /\ cli_action \notin {"encrypt", "decrypt"}
  /\ cli_pc' = "exited"
  /\ cli_exit' = "ok"
  /\ UNCHANGED <<cli_type, cli_action, cli_t, cli_calls>>
  /\ UNCHANGED notCli

NextCli == CliParse \/ CliEncryptKey \/ CliDecryptKey \/ CliOutput \/ CliNoVerb

(***************************************************************************)
(* PoseidonCipher (cipher/src/cipher.rs).  BlsScalar is the ring of        *)
(* residues modulo FieldOrder; the Hades permutation of the dusk_hades     *)
(* crate is one of a small family of bijections of the state, indexed by   *)
(* ci_perm; a secret is the pair of its affine coordinates.                *)
(***************************************************************************)
FieldOrder == 3
MaxPerm == 2
MESSAGE_CAPACITY == 2
CIPHER_SIZE == MESSAGE_CAPACITY + 1
WIDTH == 5

Scalars == 0..(FieldOrder - 1)

hades_round(k, s) ==
  [i \in 1..WIDTH |->
     IF i < WIDTH
       THEN s[i + 1]
       ELSE (s[1] + s[2] * s[3] + s[4] + s[5] + k + 1) % FieldOrder]

RECURSIVE hades_rounds(_, _, _)
hades_rounds(k, s, rounds) ==
  IF rounds = 0 THEN s ELSE hades_rounds(k, hades_round(k, s), rounds - 1)

\* strategy.perm(&mut state)
perm(k, s) == hades_rounds(k, s, WIDTH)

initial_state(secret, nonce) ==
  <<mod_pow(2, 32, FieldOrder), MESSAGE_CAPACITY % FieldOrder,
    secret[1], secret[2], nonce>>

decrypt_without_absorb(k, cipher, secret, nonce) ==
  LET s0 == perm(k, initial_state(secret, nonce))
      message == [i \in 1..MESSAGE_CAPACITY |->
                    (cipher[i] + FieldOrder - s0[i + 1]) % FieldOrder]
      s2 == perm(k, s0)
  IN  IF cipher[MESSAGE_CAPACITY + 1] # s2[2]
        THEN <<"Err", "CipherDecryptionFailed">>
        ELSE <<"Ok", message>>

\* Rust indices start at 0: state[i + 1] is s[i + 2], message[i] is
\* message[i + 1], cipher[MESSAGE_CAPACITY] is the last element
encrypt(k, message, secret, nonce) ==
  LET s0 == perm(k, initial_state(secret, nonce))
      s1 == [j \in 1..WIDTH |->
               IF (j - 2) \in 0..(MESSAGE_CAPACITY - 1)
                 THEN (s0[j] + (IF j - 2 < Len(message) THEN message[j - 1] ELSE 0))
                        % FieldOrder
                 ELSE s0[j]]
      s2 == perm(k, s1)
  IN  [i \in 1..CIPHER_SIZE |-> IF i <= MESSAGE_CAPACITY THEN s1[i + 1] ELSE s2[2]]

decrypt(k, cipher, secret, nonce) ==
  LET s0 == perm(k, initial_state(secret, nonce))
      message == [i \in 1..MESSAGE_CAPACITY |->
                    (cipher[i] + FieldOrder - s0[i + 1]) % FieldOrder]
      s1 == [j \in 1..WIDTH |->
               IF (j - 2) \in 0..(MESSAGE_CAPACITY - 1) THEN cipher[j - 1] ELSE s0[j]]
      s2 == perm(k, s1)
  IN  IF cipher[MESSAGE_CAPACITY + 1] # s2[2]
        THEN <<"Err", "CipherDecryptionFailed">>
        ELSE <<"Ok", message>>

Messages ==
  UNION {[1..len -> Scalars] : len \in 0..MESSAGE_CAPACITY}

Secrets == Scalars \X Scalars

InitCipher ==
  /\ ci_pc = "idle"
  /\ ci_perm = 0
  /\ ci_message = <<>>
  /\ ci_secret = <<0, 0>>
  /\ ci_nonce = 0
  /\ ci_cipher = <<>>
  /\ ci_result = <<>>

notCipher == <<rsaVars, itVars, cpVars, cliVars, hpVars, apVars, plVars, gyVars>>

CipherEncrypt ==
  /\ ci_pc = "idle"
  /\ \E k \in 0..MaxPerm, message \in Messages, secret \in Secrets, nonce \in Scalars :
       /\ ci_perm' = k
       /\ ci_message' = message
       /\ ci_secret' = secret
       /\ ci_nonce' = nonce
       /\ ci_cipher' = encrypt(k, message, secret, nonce)
  /\ ci_pc' = "encrypted"
  /\ UNCHANGED ci_result
  /\ UNCHANGED notCipher

CipherDecrypt ==
  /\ ci_pc = "encrypted"
  /\ ci_result' = decrypt(ci_perm, ci_cipher, ci_secret, ci_nonce)
  /\ ci_pc' = "decrypted"
  /\ UNCHANGED <<ci_perm, ci_message, ci_secret, ci_nonce, ci_cipher>>
  /\ UNCHANGED notCipher

NextCipher == CipherEncrypt \/ CipherDecrypt

(***************************************************************************)
(* Specifications: one per component, the other components idle.           *)
(***************************************************************************)
Init ==
  /\ InitRsa /\ InitIter /\ InitCheck /\ InitCli
  /\ InitHash /\ InitApprox /\ InitProof /\ InitGen /\ InitCipher

Next == NextRsa

Spec == Init /\ [][Next]_vars

SpecIter == Init /\ [][NextIter]_vars

SpecCheck == Init /\ [][NextCheck]_vars

SpecCli == Init /\ [][NextCli]_vars

SpecHash == Init /\ [][NextHash]_vars

SpecApprox == Init /\ [][NextApprox]_vars

SpecProof == Init /\ [][NextProof]_vars

SpecGen == Init /\ [][NextGen]_vars

SpecCipher == Init /\ [][NextCipher]_vars

(***************************************************************************)
(* Properties.                                                             *)
(***************************************************************************)
Verified == rsa_pc = "verified"

SameInstance == kept = solved.vdf_instance

\* C1: the solved instance returned by eval(u) is accepted by verify(u):
\* whenever the verifier checks the output of eval against the instance it
\* was computed for, the result is Ok.
RoundTripAccepted ==
  (Verified /\ via = "eval" /\ SameInstance) => res = "Ok"

EvalIsTSquarings ==
  (rsa_pc \in {"solved", "verified"} /\ via = "eval") =>
    LET n == unsolved.setup.n
        g == h_g(n, unsolved.x)
    IN  /\ solved.y = mod_pow(g, DoubleLoop(1, unsolved.setup.t), n)
        /\ unsolved.setup.t = 0 => solved.y = g

\* C4: verify against an instance that differs from the embedded one in x
\* or in any setup field returns MisMatchedVDF, whatever y and pi are.
CrossInstanceRejected ==
  (Verified /\ ~SameInstance) => res = "MisMatchedVDF"

\* C4 witness: a solved instance whose y or pi is out of range was checked
\* against an instance that differs from its own only in the trapdoor fields.
CrossInstanceSeen ==
  /\ Verified
  /\ ~SameInstance
  /\ kept.x = solved.vdf_instance.x
  /\ kept.setup.t = solved.vdf_instance.setup.t
  /\ kept.setup.n = solved.vdf_instance.setup.n
  /\ OutOfRange(solved)
  /\ res = "MisMatchedVDF"

\* C5 as stated: with a matching instance and y >= n or pi >= n, verify
\* returns an error of a kind distinct from the one returned when the
\* algebraic check fails.
RangeErrorDistinct ==
  (Verified /\ SameInstance /\ OutOfRange(solved)) =>
    (res = RangeError /\ res # AlgebraError)

\* C5 amended: with a matching instance and y >= n or pi >= n, verify
\* returns VDFVerifyError, the error kind it also returns when the algebraic
\* check fails.
RangeRejected ==
  (Verified /\ SameInstance /\ OutOfRange(solved)) =>
    (res = "VDFVerifyError" /\ res = AlgebraError)

\* C5 witness: a matching instance with y in range and pi >= n was rejected.
RangeCaseSeen ==
  /\ Verified
  /\ SameInstance
  /\ solved.y < solved.vdf_instance.setup.n
  /\ solved.pi >= solved.vdf_instance.setup.n
  /\ res = "VDFVerifyError"

\* C7: no solved instance that reaches a verifier, and no instance the
\* verifier holds, carries a non-zero p, q or pi_n.
TrapdoorNeverShared ==
  Verified =>
    /\ solved.vdf_instance.setup.p = 0
    /\ solved.vdf_instance.setup.q = 0
    /\ solved.vdf_instance.setup.pi_n = 0

RECURSIVE SumSeq(_)
SumSeq(s) == IF s = <<>> THEN 0 ELSE Head(s) + SumSeq(Tail(s))

MaxOf(S) == IF S = {} THEN 0 ELSE CHOOSE m \in S : \A v \in S : v <= m

Requested == {it_req[i] : i \in DOMAIN it_req}

\* C8: every repeated_square call of iterate_squarings gets a non-negative
\* count; the returned map has exactly the requested counts as keys, its
\* value at c is the base element squared c times, and the squarings done
\* add up to the largest requested count.
CheckpointCache ==
  /\ \A i \in DOMAIN it_calls : it_calls[i] >= 0
  /\ it_pc = "done" =>
       /\ DOMAIN it_map = Requested
       /\ \A c \in Requested : it_map[c] = repeated_square(it_x0, c)
       /\ SumSeq(it_calls) = MaxOf(Requested)

\* C8 witness: the map was returned for a request that is not in ascending
\* order and holds a duplicate.
CheckpointCacheSeen ==
  /\ it_pc = "done"
  /\ Len(it_req) = 3
  /\ it_req[1] > it_req[2]
  /\ it_req[1] = it_req[3]
  /\ it_req[2] > 0

WantedBlobLen == 4 * ((cp_bits + 16) \div 16)

\* C9: a blob whose length is not 4 * ((int_size_bits + 16) >> 4) is
\* answered with Err before anything is decoded; a blob of that length is
\* split into result_bytes and proof_bytes of 2 * ((int_size_bits + 16) >> 4)
\* bytes each.
BlobLengthChecked ==
  /\ (cp_pc \notin {"idle", "entered"} /\ Len(cp_blob) # WantedBlobLen) =>
       (cp_pc = "done" /\ cp_ret = "Err" /\ cp_decoded = <<>>)
  /\ (cp_pc \in {"split", "decoded", "done"} /\ Len(cp_blob) = WantedBlobLen) =>
       /\ Len(cp_result_bytes) = 2 * ((cp_bits + 16) \div 16)
       /\ Len(cp_proof_bytes) = 2 * ((cp_bits + 16) \div 16)
       /\ cp_result_bytes \o cp_proof_bytes = cp_blob

\* C9 witness: a blob longer than the wanted length was rejected.
BlobTooLongSeen ==
  /\ cp_pc = "done"
  /\ Len(cp_blob) > WantedBlobLen
  /\ cp_ret = "Err"

\* C10: with proof type pietrzak and t odd or below 66, the encrypt and
\* decrypt verbs never run calculate_y.
CliValidatesIterations ==
  (/\ cli_pc # "start"
   /\ cli_action \in {"encrypt", "decrypt"}
   /\ check_iterations(cli_type = "pietrzak", cli_t) = "validation_error") =>
    cli_calls = 0

\* C11: hash_prime starts its counter at 0 and adds 1 after each candidate
\* that fails the primality test, so every counter below the current one
\* gave a composite candidate; it returns the candidate of the smallest
\* counter that passes, the candidate being the digest of "prime", the
\* counter as 8 big-endian bytes and the seed parts in order; the prover
\* and the verifier, hashing the same seed, get the same prime.
HashPrimeDeterministic ==
  /\ \A c \in Callers :
       /\ hp_pc[c] \in {"loop", "done"} =>
            /\ \A k \in 0..(hp_j[c] - 1) : ~probab_prime(Digest16(k, hp_seed))
            /\ Len(u64_to_bytes(hp_j[c])) = 8
            /\ BytesToInt(u64_to_bytes(hp_j[c])) = hp_j[c]
       /\ hp_pc[c] = "done" =>
            /\ probab_prime(hp_ret[c])
            /\ hp_ret[c] =
                 Mix(0, PrimeTag \o u64_to_bytes(hp_j[c]) \o Concat(hp_seed))
            /\ hp_ret[c] = hash_prime(hp_seed)
  /\ (\A c \in Callers : hp_pc[c] = "done") =>
       hp_ret["prover"] = hp_ret["verifier"]

\* C11 witness: both parties returned, after at least two failed candidates.
HashPrimeAgreedSeen ==
  /\ \A c \in Callers : hp_pc[c] = "done"
  /\ hp_j["prover"] >= 2
  /\ hp_ret["prover"] = hp_ret["verifier"]

\* C12: the first component of approximate_parameters is monotone: of two
\* calls with t1 <= t2, the first component of the first result is at most
\* that of the second.
ParameterMonotone ==
  (ap_calls = 2 /\ ap_t1 <= ap_t2) => ap_r1[1] <= ap_r2[1]

\* C12 witness: two calls on either side of the memory budget, where the
\* first component rises from 1 to 10.
ParameterJumpSeen ==
  /\ ap_calls = 2
  /\ ap_t1 <= MemoryBudget
  /\ ap_t2 > MemoryBudget
  /\ ap_r1[1] = 1
  /\ ap_r2[1] = 10

\* C13: in the proof loop of eval and eval_with_trapdoor l is a prime above
\* 1; after i iterations r = 2^i mod l and pi = g^floor(2^i / l) mod n, and
\* every quotient b is 0 or 1; at exit pi^l * g^(2^t mod l) = g^(2^t) mod n,
\* and with t = 0 the loop does not run and pi = 1.
LongDivisionInvariant ==
  LET n == pl_u.setup.n
      t == pl_u.setup.t
  IN  /\ pl_pc \in {"loop", "done"} =>
           /\ pl_l > 1
           /\ IsPrime(pl_l)
           /\ pl_i <= t
           /\ pl_r = mod_pow(2, pl_i, pl_l)
           /\ pl_pi = mod_pow(pl_g, DoubleLoop(1, pl_i) \div pl_l, n)
           /\ pl_b \in {0, 1}
      /\ pl_pc = "done" =>
           /\ pl_i = t
           /\ mod_mul(mod_pow(pl_pi, pl_l, n),
                      mod_pow(pl_g, mod_pow(2, t, pl_l), n), n)
                = mod_pow(pl_g, DoubleLoop(1, t), n)
           /\ t = 0 => pl_pi = 1
           /\ pl_solved = (IF pl_trap THEN eval_with_trapdoor(pl_u)
                                      ELSE eval(pl_u))

\* C13 witness: eval_with_trapdoor left the loop after at least three
\* iterations, the last quotient being 1, with a base other than 0 and 1.
LongDivisionExitSeen ==
  /\ pl_pc = "done"
  /\ pl_trap
  /\ pl_u.setup.t >= 3
  /\ pl_b = 1
  /\ pl_g > 1
  /\ pl_pi > 1

\* C14: the output of eval_with_trapdoor on public_setup2(x, t, p, q),
\* verified against public_setup3(x, t, n), is answered MisMatchedVDF.
TrapdoorOutputMismatch ==
  (/\ Verified
   /\ via = "trapdoor"
   /\ solved.vdf_instance = unsolved
   /\ kept = public_setup3(unsolved.x, unsolved.setup.t, unsolved.setup.n)) =>
    res = "MisMatchedVDF"

\* C14 witness: a trapdoor evaluation with t >= 1 was checked against the
\* public_setup3 instance of the same x, t and n.
TrapdoorOutputMismatchSeen ==
  /\ Verified
  /\ via = "trapdoor"
  /\ unsolved.setup.t >= 1
  /\ unsolved.setup.p # 0
  /\ solved = eval_with_trapdoor(unsolved)
  /\ kept = public_setup3(unsolved.x, unsolved.setup.t, unsolved.setup.n)
  /\ res = "MisMatchedVDF"

GeneratedLen == 2 * ((gy_bits + 16) \div 16)

\* C15 as stated: for every challenge, iteration count and int_size_bits
\* calculate_y returns 2 * ((int_size_bits + 16) >> 4) bytes, and verify
\* called with them returns an error at the blob-length check.
GeneratedAlwaysReturned ==
  /\ gy_pc # "panicked"
  /\ gy_pc \in {"done", "verifying"} => Len(gy_out) = GeneratedLen
  /\ (gy_fed /\ cp_pc \notin {"idle", "entered"}) => cp_ret = "Err"

\* C15: for an iteration count below 2^53 calculate_y returns exactly
\* 2 * ((int_size_bits + 16) >> 4) bytes, the serialized element after
\* `iterations` squarings, which the checkpoint map generate_y asked for
\* always holds; WesolowskiVDF::verify called with that output returns an
\* error at the blob-length check, before anything is decoded.  For a count
\* of 2^53 or more calculate_y panics and returns nothing.
GeneratedOutputRejected ==
  /\ gy_pc # "idle" => (gy_pc = "panicked" <=> gy_high > 0)
  /\ gy_pc = "panicked" => (gy_out = <<>> /\ ~gy_fed)
  /\ (gy_pc = "squaring" /\ it_pc = "done") => gy_iterations \in DOMAIN it_map
  /\ gy_pc \in {"done", "verifying"} =>
       /\ Len(gy_out) = GeneratedLen
       /\ gy_out = serialize(repeated_square(gy_x, gy_iterations), GeneratedLen)
  /\ (gy_fed /\ cp_pc \notin {"idle", "entered"}) =>
       /\ cp_blob = gy_out
       /\ cp_pc = "done"
       /\ cp_ret = "Err"
       /\ cp_decoded = <<>>

\* C15 witness: the output of calculate_y for at least three squarings was
\* handed to verify and rejected.
GeneratedOutputRejectedSeen ==
  /\ gy_fed
  /\ gy_high = 0
  /\ gy_iterations >= 3
  /\ cp_pc = "done"
  /\ cp_ret = "Err"
  /\ Len(cp_blob) = GeneratedLen

PadMessage(message) ==
  [i \in 1..MESSAGE_CAPACITY |-> IF i <= Len(message) THEN message[i] ELSE 0]

\* C16: for every message of at most two field elements, every secret and
\* every nonce, decrypting the result of encrypt with the same secret and
\* nonce returns Ok with the message padded with zeros to two elements, and
\* never CipherDecryptionFailed, whatever the permutation.
CipherRoundTrip ==
  ci_pc = "decrypted" => ci_result = <<"Ok", PadMessage(ci_message)>>

\* C16 witness: a one-element non-zero message was encrypted and decrypted,
\* and came back padded.
CipherRoundTripSeen ==
  /\ ci_pc = "decrypted"
  /\ Len(ci_message) = 1
  /\ ci_message[1] # 0
  /\ ci_result = <<"Ok", <<ci_message[1], 0>>>>

====
